---- MODULE Spec2Model ----
(***************************************************************************)
(* Model of the recurrence expander of fetch_events.py:                    *)
(* generate_event_dates, build_full_calendar and build_viz_format, over    *)
(* a table of event definitions and a range of years; and of the lookup    *)
(* loop of fetch_populartimes.py over its table of places.                 *)
(***************************************************************************)
EXTENDS Integers, Sequences, FiniteSets, TLC

\* ---------------------------------------------------------------------
\* Bounds of the model
\* ---------------------------------------------------------------------
\* longest definition table explored
MaxDefs == 2
\* build_full_calendar is called with end_year in start_year-1 .. start_year+MaxSpan
MaxSpan == 2
\* the first years build_full_calendar is called with
StartYears == {2019, 2024}
\* evaluations of the weekly loop explored: a year has at most 366 days, and
\* one more evaluation finds the guard false
ScanFuel == 367
\* the places of PLACES the lookup loop of fetch_populartimes.py runs over
MaxPlaces == 3

\* ---------------------------------------------------------------------
\* Program constants
\* ---------------------------------------------------------------------
DefaultStartYear == 2015
DefaultEndYear == 2025
VizFullRangeEnd == 2025
Friday == 4
Saturday == 5

\* ---------------------------------------------------------------------
\* datetime.date, as far as the program uses it
\* ---------------------------------------------------------------------
IsLeap(y) == (y % 4 = 0) /\ ((y % 100 # 0) \/ (y % 400 = 0))

DaysInMonth(y, m) ==
    IF m = 2 THEN (IF IsLeap(y) THEN 29 ELSE 28)
    ELSE IF m \in {4, 6, 9, 11} THEN 30 ELSE 31

\* date(y, m, d) raises ValueError unless this holds
DateValid(y, m, d) ==
    /\ y \in 1..9999
    /\ m \in 1..12
    /\ d \in 1..DaysInMonth(y, m)

MkDate(y, m, d) == [year |-> y, month |-> m, day |-> d]

DaysBeforeYear(y) ==
    (y - 1) * 365 + ((y - 1) \div 4) - ((y - 1) \div 100) + ((y - 1) \div 400)

RECURSIVE DaysBeforeMonth(_, _)
DaysBeforeMonth(y, m) ==
    IF m = 1 THEN 0 ELSE DaysBeforeMonth(y, m - 1) + DaysInMonth(y, m - 1)

\* date.toordinal()
ToOrdinal(dt) == DaysBeforeYear(dt.year) + DaysBeforeMonth(dt.year, dt.month) + dt.day

\* date.weekday(): Monday is 0
Weekday(dt) == (ToOrdinal(dt) + 6) % 7

\* d + timedelta(days=1)
NextDay(dt) ==
    IF dt.day < DaysInMonth(dt.year, dt.month)
    THEN MkDate(dt.year, dt.month, dt.day + 1)
    ELSE IF dt.month < 12
         THEN MkDate(dt.year, dt.month + 1, 1)
         ELSE MkDate(dt.year + 1, 1, 1)

\* d1 < d2 in the place of d1 <= d2
DateLeq_Strict(a, b) ==
    \/ a.year < b.year
    \/ a.year = b.year /\ a.month < b.month
    \/ a.year = b.year /\ a.month = b.month /\ a.day < b.day

\* d1 <= d2 on dates
DateLeq(a, b) ==
    \/ a.year < b.year
    \/ a.year = b.year /\ a.month < b.month
    \/ a.year = b.year /\ a.month = b.month /\ a.day <= b.day

\* strings are sequences of code points
Digit(n) == 48 + n
Hyphen == 45

\* date.isoformat(): "%04d-%02d-%02d"
IsoFormat(dt) ==
    << Digit((dt.year \div 1000) % 10), Digit((dt.year \div 100) % 10),
       Digit((dt.year \div 10) % 10), Digit(dt.year % 10), Hyphen,
       Digit((dt.month \div 10) % 10), Digit(dt.month % 10), Hyphen,
       Digit((dt.day \div 10) % 10), Digit(dt.day % 10) >>

\* str < str: lexicographic on code points, a proper prefix is smaller
RECURSIVE StrLess(_, _)
StrLess(a, b) ==
    IF b = <<>> THEN FALSE
    ELSE IF a = <<>> THEN TRUE
    ELSE IF Head(a) # Head(b) THEN Head(a) < Head(b)
    ELSE StrLess(Tail(a), Tail(b))

\* dict.get(key, default)
Get(d, key, default) == IF key \in DOMAIN d THEN d[key] ELSE default

\* ---------------------------------------------------------------------
\* The definition table.  A definition is a record whose optional keys may
\* be absent; boost is kept in hundredths (0.4 is 40).
\* ---------------------------------------------------------------------
FridaysAfterFive ==
    [name |-> "Fridays After Five", type |-> "music",
     description |-> "Free concert series at Ting Pavilion. 37th season in 2025.",
     source |-> "https://www.tingpavilion.com/events-tickets/fridaysafter5",
     pattern |-> "every_friday",
     season_start_month |-> 4, season_start_day |-> 18,
     season_end_month |-> 9, season_end_day |-> 5,
     start_year |-> 2015, end_year |-> 2025, skip_years |-> <<2020>>,
     boost |-> 40, time |-> "17:30-21:00",
     location |-> "Ting Pavilion, Downtown Mall"]

TomTomFestival ==
    [name |-> "Tom Tom Festival", type |-> "festival",
     description |-> "Music, art & ideas festival. Block party on Downtown Mall.",
     source |-> "https://www.tomtomfoundation.org/2025-festival",
     pattern |-> "fixed_dates",
     typical_month |-> 4, typical_days |-> <<16, 17, 18, 19, 20>>,
     start_year |-> 2013, end_year |-> 2025, skip_years |-> <<2020, 2021>>,
     boost |-> 60, location |-> "Downtown Mall, CODE Building"]

CityMarket ==
    [name |-> "Charlottesville City Market", type |-> "market",
     description |-> "Saturday farmers market with local produce and crafts.",
     source |-> "https://www.charlottesvillecitymarket.com",
     pattern |-> "every_saturday",
     season_start_month |-> 4, season_start_day |-> 1,
     season_end_month |-> 12, season_end_day |-> 20,
     start_year |-> 2015, end_year |-> 2025, skip_years |-> <<>>,
     boost |-> 20, time |-> "07:00-12:00",
     location |-> "City Market, Water Street"]

FirstFridays ==
    [name |-> "First Fridays", type |-> "art",
     description |-> "Gallery walk on the Downtown Mall. First Friday of each month.",
     source |-> "https://www.visitcharlottesville.org",
     pattern |-> "first_friday",
     start_year |-> 2015, end_year |-> 2025, skip_years |-> <<2020>>,
     boost |-> 20, time |-> "17:00-20:00",
     location |-> "Downtown Mall galleries"]

\* Definitions the table does not hold but the functions accept: days that
\* are no calendar date, no start_year / end_year / skip_years keys
LeapDayFair ==
    [name |-> "Leap Day Fair", type |-> "civic",
     pattern |-> "fixed_dates",
     typical_month |-> 2, typical_days |-> <<30, 29, 28>>,
     boost |-> 10]

\* a day no year has, and a start year later than the default
AprilThirtyFirst ==
    [name |-> "April Thirty-First", type |-> "civic",
     description |-> "Never happens.",
     pattern |-> "fixed_dates",
     typical_month |-> 4, typical_days |-> <<31>>,
     start_year |-> 2020, end_year |-> 2025,
     boost |-> 10, location |-> "Downtown Mall"]

\* a start year inside the years of the calendar, no source and no skip_years
JuneteenthCelebration ==
    [name |-> "Juneteenth Celebration", type |-> "civic",
     description |-> "Community celebration of freedom.",
     pattern |-> "fixed_dates",
     typical_month |-> 6, typical_days |-> <<19>>,
     start_year |-> 2020, end_year |-> 2025,
     boost |-> 20, location |-> "Downtown Mall"]

\* season end before season start
InvertedSeason ==
    [name |-> "Inverted Season", type |-> "music",
     pattern |-> "every_friday",
     season_start_month |-> 9, season_start_day |-> 5,
     season_end_month |-> 4, season_end_day |-> 18,
     start_year |-> 2015, end_year |-> 2025, skip_years |-> <<>>,
     boost |-> 10]

\* a pattern tag generate_event_dates has no branch for
SundayStroll ==
    [name |-> "Sunday Stroll", type |-> "market",
     pattern |-> "every_sunday",
     season_start_month |-> 4, season_start_day |-> 1,
     season_end_month |-> 4, season_end_day |-> 30,
     start_year |-> 2015, end_year |-> 2025, skip_years |-> <<>>,
     boost |-> 10]

\* a season bound that is a calendar date in leap years only
LeapSeason ==
    [name |-> "Leap Season", type |-> "market",
     pattern |-> "every_saturday",
     season_start_month |-> 2, season_start_day |-> 29,
     season_end_month |-> 3, season_end_day |-> 31,
     start_year |-> 2015, end_year |-> 2024, skip_years |-> <<2021>>,
     boost |-> 10]

Pool ==
    << FridaysAfterFive, TomTomFestival, CityMarket, FirstFridays,
       LeapDayFair, AprilThirtyFirst, InvertedSeason, SundayStroll, LeapSeason,
       JuneteenthCelebration >>

\* the tables explored: sequences of distinct definitions (names are unique)
Tables ==
    UNION { { [k \in 1..n |-> Pool[f[k]]] :
                f \in { g \in [1..n -> 1..Len(Pool)] :
                          \A a, b \in 1..n : a # b => g[a] # g[b] } } :
            n \in 0..MaxDefs }

\* ---------------------------------------------------------------------
\* generate_event_dates
\* ---------------------------------------------------------------------
Range(s) == { s[k] : k \in 1..Len(s) }

\* event_def.get('start_year', 2015), .get('end_year', 2025), .get('skip_years', [])
StartYearOf(event_def) == Get(event_def, "start_year", DefaultStartYear)
EndYearOf(event_def) == Get(event_def, "end_year", DefaultEndYear)
SkipYearsOf(event_def) == Range(Get(event_def, "skip_years", <<>>))

\* the early returns without the end_year test
Inactive_NoEndYear(event_def, y) ==
    \/ y < StartYearOf(event_def)
    \/ y \in SkipYearsOf(event_def)

\* the early returns without the skip_years test
Inactive_NoSkipYears(event_def, y) ==
    \/ y < StartYearOf(event_def)
    \/ y > EndYearOf(event_def)

\* the three early returns
Inactive(event_def, y) ==
    \/ y < StartYearOf(event_def)
    \/ y > EndYearOf(event_def)
    \/ y \in SkipYearsOf(event_def)

\* the loop left at the first day that is no date
RECURSIVE FixedDates_StopAtInvalid(_, _, _)
FixedDates_StopAtInvalid(y, month, days) ==
    IF days = <<>> \/ ~DateValid(y, month, Head(days)) THEN <<>>
    ELSE << MkDate(y, month, Head(days)) >>
         \o FixedDates_StopAtInvalid(y, month, Tail(days))

\* the fixed_dates loop: a day that is no date raises ValueError, which is passed
RECURSIVE FixedDates(_, _, _)
FixedDates(y, month, days) ==
    IF days = <<>> THEN <<>>
    ELSE (IF DateValid(y, month, Head(days))
          THEN << MkDate(y, month, Head(days)) >> ELSE <<>>)
         \o FixedDates(y, month, Tail(days))

\* d += timedelta(days=1) under the if: the date advances on a match only
WeeklyStep_AdvanceOnMatch(st, end, wd) ==
    IF ~DateLeq(st.d, end) THEN st
    ELSE [d |-> IF Weekday(st.d) = wd THEN NextDay(st.d) ELSE st.d,
          dates |-> IF Weekday(st.d) = wd THEN Append(st.dates, st.d) ELSE st.dates,
          steps |-> st.steps + 1]

\* one evaluation of "while d <= end:" and, when it holds, of the loop body
\*   if d.weekday() == wd: dates.append(d)
\*   d += timedelta(days=1)
\* st.steps counts the passes of the body
WeeklyStep(st, end, wd) ==
    IF ~DateLeq(st.d, end) THEN st
    ELSE [d |-> NextDay(st.d),
          dates |-> IF Weekday(st.d) = wd THEN Append(st.dates, st.d) ELSE st.dates,
          steps |-> st.steps + 1]

\* n evaluations of the loop, one after the other
RECURSIVE WeeklyIter(_, _, _, _)
WeeklyIter(st, end, wd, n) ==
    IF n = 0 THEN st
    ELSE IF n = 1 THEN WeeklyStep(st, end, wd)
    ELSE LET mid == WeeklyIter(st, end, wd, n \div 2)
         IN IF ~DateLeq(mid.d, end) THEN mid
            ELSE WeeklyIter(mid, end, wd, n - (n \div 2))

\* the loop from d = start until d <= end fails; start and end lie in one
\* year, so the guard fails within ScanFuel evaluations
WeeklyLoop(start, end, wd) ==
    WeeklyIter([d |-> start, dates |-> <<>>, steps |-> 0], end, wd, ScanFuel)

WeeklyScan(start, end, wd) == WeeklyLoop(start, end, wd).dates

\* while d.weekday() != 4: d += timedelta(days=1)
RECURSIVE FirstFridayScan(_)
FirstFridayScan(d) ==
    IF Weekday(d) # Friday THEN FirstFridayScan(NextDay(d)) ELSE d

\* the number of times the body of that while loop runs
RECURSIVE FirstFridayIncrements(_)
FirstFridayIncrements(d) ==
    IF Weekday(d) # Friday THEN 1 + FirstFridayIncrements(NextDay(d)) ELSE 0

\* range(1, 12) in the place of range(1, 13)
FirstFridayMonths_Short == 1..11

\* for month in range(1, 13)
FirstFridayMonths == 1..12

RECURSIVE FirstFridayLoop(_, _)
FirstFridayLoop(y, month) ==
    IF month \notin FirstFridayMonths THEN <<>>
    ELSE << FirstFridayScan(MkDate(y, month, 1)) >> \o FirstFridayLoop(y, month + 1)

Returned(ds) == [dates |-> ds, error |-> "none"]
Raised(e) == [dates |-> <<>>, error |-> e]

Weekly(event_def, y, wd) ==
    IF ~({"season_start_month", "season_start_day",
          "season_end_month", "season_end_day"} \subseteq DOMAIN event_def)
    THEN Raised("KeyError")
    ELSE IF \/ ~DateValid(y, event_def.season_start_month, event_def.season_start_day)
            \/ ~DateValid(y, event_def.season_end_month, event_def.season_end_day)
    THEN Raised("ValueError")
    ELSE Returned(WeeklyScan(
             MkDate(y, event_def.season_start_month, event_def.season_start_day),
             MkDate(y, event_def.season_end_month, event_def.season_end_day), wd))

GenerateEventDates(event_def, y) ==
    IF Inactive(event_def, y) THEN Returned(<<>>)
    ELSE IF "pattern" \notin DOMAIN event_def THEN Raised("KeyError")
    ELSE IF event_def.pattern = "fixed_dates"
    THEN IF {"typical_month", "typical_days"} \subseteq DOMAIN event_def
         THEN Returned(FixedDates(y, event_def.typical_month, event_def.typical_days))
         ELSE Raised("KeyError")
    ELSE IF event_def.pattern = "every_friday" THEN Weekly(event_def, y, Friday)
    ELSE IF event_def.pattern = "every_saturday" THEN Weekly(event_def, y, Saturday)
    ELSE IF event_def.pattern = "first_friday"
    THEN IF y \in 1..9999 THEN Returned(FirstFridayLoop(y, 1)) ELSE Raised("ValueError")
    ELSE Returned(<<>>)

\* the years a call of build_full_calendar can pass to generate_event_dates
Years == UNION { sy..(sy + MaxSpan) : sy \in StartYears }

\* generate_event_dates is a function of its two arguments alone: what it
\* returns or raises for every definition of the pool and every year,
\* evaluated once
GenerateEventDatesTable ==
    << >> @@ [p \in (1..Len(Pool)) \X Years |-> GenerateEventDates(Pool[p[1]], p[2])]

\* dates = generate_event_dates(event_def, year)
GenerateEventDatesCall(event_def, y) ==
    GenerateEventDatesTable[<< CHOOSE k \in 1..Len(Pool) : Pool[k] = event_def, y >>]

\* ---------------------------------------------------------------------
\* build_full_calendar
\* ---------------------------------------------------------------------
\* the optional keys read with event_def[...]: a key the definition lacks is
\* left out of the entry
Entry_NoDefaults(event_def, d) ==
    [date |-> IsoFormat(d),
     name |-> event_def.name,
     type |-> event_def.type,
     boost |-> event_def.boost]
    @@ [f \in {"description", "location", "source"} \cap DOMAIN event_def |-> event_def[f]]

\* the dict appended for one date
Entry(event_def, d) ==
    [date |-> IsoFormat(d),
     name |-> event_def.name,
     type |-> event_def.type,
     boost |-> event_def.boost,
     description |-> Get(event_def, "description", ""),
     location |-> Get(event_def, "location", "Downtown Mall"),
     source |-> Get(event_def, "source", "curated")]

Entries(event_def, ds) == [k \in 1..Len(ds) |-> Entry(event_def, ds[k])]

\* key=lambda x: x['date']
SortKey(x) == x.date

\* a merge that takes the right element when the two keys are equal
MergeStep_RightOnTies(st) ==
    IF st.a = <<>> /\ st.b = <<>> THEN st
    ELSE IF st.a = <<>> THEN [a |-> <<>>, b |-> <<>>, out |-> st.out \o st.b]
    ELSE IF st.b = <<>> THEN [a |-> <<>>, b |-> <<>>, out |-> st.out \o st.a]
    ELSE IF ~StrLess(SortKey(Head(st.a)), SortKey(Head(st.b)))
         THEN [a |-> st.a, b |-> Tail(st.b), out |-> Append(st.out, Head(st.b))]
         ELSE [a |-> Tail(st.a), b |-> st.b, out |-> Append(st.out, Head(st.a))]

\* list.sort(key=...) is a stable merge sort: of two equal keys the left stays first
MergeStep(st) ==
    IF st.a = <<>> /\ st.b = <<>> THEN st
    ELSE IF st.a = <<>> THEN [a |-> <<>>, b |-> <<>>, out |-> st.out \o st.b]
    ELSE IF st.b = <<>> THEN [a |-> <<>>, b |-> <<>>, out |-> st.out \o st.a]
    ELSE IF StrLess(SortKey(Head(st.b)), SortKey(Head(st.a)))
         THEN [a |-> st.a, b |-> Tail(st.b), out |-> Append(st.out, Head(st.b))]
         ELSE [a |-> Tail(st.a), b |-> st.b, out |-> Append(st.out, Head(st.a))]

RECURSIVE MergeIter(_, _)
MergeIter(st, n) ==
    IF n = 0 THEN st
    ELSE IF n = 1 THEN MergeStep(st)
    ELSE LET mid == MergeIter(st, n \div 2)
         IN IF mid.a = <<>> /\ mid.b = <<>> THEN mid
            ELSE MergeIter(mid, n - (n \div 2))

Merge(a, b) == MergeIter([a |-> a, b |-> b, out |-> <<>>], Len(a) + Len(b)).out

\* a pass over the list that writes a field of every entry in the place of the sort
SortByDate_RewritesEntries(s) == [k \in 1..Len(s) |-> [s[k] EXCEPT !.source = "curated"]]

\* the sort left out: the list stays in the order of generation
SortByDate_Unsorted(s) == s

RECURSIVE SortByDate(_)
SortByDate(s) ==
    IF Len(s) <= 1 THEN s
    ELSE LET h == Len(s) \div 2
         IN Merge(SortByDate(SubSeq(s, 1, h)), SortByDate(SubSeq(s, h + 1, Len(s))))

\* ---------------------------------------------------------------------
\* build_viz_format
\* ---------------------------------------------------------------------
SeasonFields(ev, tag) ==
    [recurring |-> tag,
     startMonth |-> ev.season_start_month, startDay |-> ev.season_start_day,
     endMonth |-> ev.season_end_month, endDay |-> ev.season_end_day]

\* the every_saturday branch copied from every_friday with its tag unchanged
PatternFields_SaturdayTag(ev) ==
    IF ev.pattern = "every_friday" THEN SeasonFields(ev, "friday")
    ELSE IF ev.pattern = "every_saturday" THEN SeasonFields(ev, "friday")
    ELSE IF ev.pattern = "first_friday" THEN [recurring |-> "first_friday"]
    ELSE IF ev.pattern = "fixed_dates"
         THEN [month |-> ev.typical_month, days |-> ev.typical_days]
    ELSE << >>

PatternFields(ev) ==
    IF ev.pattern = "every_friday" THEN SeasonFields(ev, "friday")
    ELSE IF ev.pattern = "every_saturday" THEN SeasonFields(ev, "saturday")
    ELSE IF ev.pattern = "first_friday" THEN [recurring |-> "first_friday"]
    ELSE IF ev.pattern = "fixed_dates"
         THEN [month |-> ev.typical_month, days |-> ev.typical_days]
    ELSE << >>

\* if ev.get('end_year'): the comparison with the end of the range left out
EndYearField_Always(ev) ==
    IF "end_year" \in DOMAIN ev /\ ev.end_year # 0
    THEN [endYear |-> ev.end_year] ELSE << >>

\* ev.get('end_year') and ev['end_year'] < 2025
EndYearField(ev) ==
    IF "end_year" \in DOMAIN ev /\ ev.end_year # 0 /\ ev.end_year < VizFullRangeEnd
    THEN [endYear |-> ev.end_year] ELSE << >>

\* ev.get('skip_years'): an absent or empty list is falsy
SkipYearsField(ev) ==
    IF "skip_years" \in DOMAIN ev /\ ev.skip_years # <<>>
    THEN [skipYears |-> ev.skip_years] ELSE << >>

VizEntry(ev) ==
    [name |-> ev.name, type |-> ev.type, boost |-> ev.boost,
     desc |-> Get(ev, "description", "")]
    @@ PatternFields(ev) @@ EndYearField(ev) @@ SkipYearsField(ev)

BuildVizFormat(table) == [k \in 1..Len(table) |-> VizEntry(table[k])]

\* ---------------------------------------------------------------------
\* State
\* ---------------------------------------------------------------------
VARIABLES
    RECURRING_EVENTS,   \* the definition table
    start_year,         \* arguments of build_full_calendar
    end_year,
    pc,                 \* "main", "loop", "returned", "done", "raised"
    idx,                \* position in the table of event_def of the last call (0: none yet)
    year,               \* year of the last call of generate_event_dates
    dates,              \* what that call returned
    error,              \* the exception that ended the run, or "none"
    calendar,           \* the list build_full_calendar builds
    viz_events,         \* what build_viz_format returned
    log,                \* the calls of generate_event_dates of this call of
                        \* build_full_calendar: arguments and outcome, in order
    run,                \* 1 in the first call of build_full_calendar, 2 in the second
    first,              \* what the first call returned and its log
    \* fetch_populartimes.py
    place_idx,          \* position in PLACES of place (enumerate: i + 1)
    got_data,
    results,            \* the dict results: place name -> entry
    success_count,
    trace,              \* the lookups made so far and what each one did
    fetch_pc            \* "place_id", "address", "after_loop", "saved"

\* the variables of fetch_events.py and those of fetch_populartimes.py
events_vars == << RECURRING_EVENTS, start_year, end_year, pc, idx, year, dates, error,
                  calendar, viz_events, log, run, first >>
fetch_vars == << place_idx, got_data, results, success_count, trace, fetch_pc >>

vars == << RECURRING_EVENTS, start_year, end_year, pc, idx, year, dates, error,
           calendar, viz_events, log, run, first,
           place_idx, got_data, results, success_count, trace, fetch_pc >>

\* fetch_populartimes.py before its loop: results = {}, success_count = 0
FetchInit ==
    /\ place_idx = 1
    /\ got_data = FALSE
    /\ results = << >>
    /\ success_count = 0
    /\ trace = << >>
    /\ fetch_pc = "place_id"

Init ==
    /\ RECURRING_EVENTS \in Tables
    /\ start_year \in StartYears
    /\ end_year \in (start_year - 1)..(start_year + MaxSpan)
    /\ pc = "main"
    /\ idx = 0
    /\ year = 0
    /\ dates = <<>>
    /\ error = "none"
    /\ calendar = <<>>
    /\ viz_events = <<>>
    /\ log = <<>>
    /\ run = 1
    /\ first = [calendar |-> <<>>, log |-> <<>>]
    /\ FetchInit

\* the list is kept from the call before
NewCalendar_Kept(old) == old

\* calendar = []: every call starts from a new, empty list
NewCalendar(old) == <<>>

\* build_full_calendar is entered: its locals are fresh
EnterBuildFullCalendar ==
    /\ pc = "main"
    /\ pc' = "loop"
    /\ calendar' = NewCalendar(calendar)
    /\ idx' = 0
    /\ year' = 0
    /\ dates' = <<>>
    /\ log' = <<>>
    /\ UNCHANGED << RECURRING_EVENTS, start_year, end_year, error, viz_events,
                    run, first >>
    /\ UNCHANGED fetch_vars

\* range(start_year, end_year) in the place of range(start_year, end_year + 1)
RangeStop_Exclusive(ey) == ey

\* range(start_year, end_year + 1) stops before this year
RangeStop(ey) == ey + 1

\* the two nested for loops, in the order the code visits the pairs
HasNext ==
    /\ start_year < RangeStop(end_year)
    /\ \/ idx = 0 /\ Len(RECURRING_EVENTS) > 0
       \/ idx > 0 /\ (year + 1 < RangeStop(end_year) \/ idx < Len(RECURRING_EVENTS))

NextPair ==
    IF idx = 0 THEN << 1, start_year >>
    ELSE IF year + 1 < RangeStop(end_year) THEN << idx, year + 1 >>
    ELSE << idx + 1, start_year >>

Call(d, y, r) == [event_def |-> d, year |-> y, dates |-> r.dates, error |-> r.error]

\* one pass of the loop body: the call returns and its dates are appended
LoopBody ==
    /\ pc = "loop"
    /\ HasNext
    /\ LET i == NextPair[1]
           y == NextPair[2]
           r == GenerateEventDatesCall(RECURRING_EVENTS[i], y)
       IN /\ r.error = "none"
          /\ idx' = i
          /\ year' = y
          /\ dates' = r.dates
          /\ calendar' = calendar \o Entries(RECURRING_EVENTS[i], r.dates)
          /\ log' = Append(log, Call(RECURRING_EVENTS[i], y, r))
    /\ UNCHANGED << RECURRING_EVENTS, start_year, end_year, pc, error, viz_events,
                    run, first >>
    /\ UNCHANGED fetch_vars

\* one pass of the loop body: the call raises and the exception ends the run
LoopRaise ==
    /\ pc = "loop"
    /\ HasNext
    /\ LET i == NextPair[1]
           y == NextPair[2]
           r == GenerateEventDatesCall(RECURRING_EVENTS[i], y)
       IN /\ r.error # "none"
          /\ idx' = i
          /\ year' = y
          /\ dates' = <<>>
          /\ error' = r.error
          /\ pc' = "raised"
          /\ log' = Append(log, Call(RECURRING_EVENTS[i], y, r))
    /\ UNCHANGED << RECURRING_EVENTS, start_year, end_year, calendar, viz_events,
                    run, first >>
    /\ UNCHANGED fetch_vars

\* calendar.sort(key=lambda x: x['date']); return calendar
SortAndReturn ==
    /\ pc = "loop"
    /\ ~HasNext
    /\ calendar' = SortByDate(calendar)
    /\ pc' = "returned"
    /\ UNCHANGED << RECURRING_EVENTS, start_year, end_year, idx, year, dates, error,
                    viz_events, log, run, first >>
    /\ UNCHANGED fetch_vars

CallBuildVizFormat ==
    /\ pc = "returned"
    /\ viz_events' = BuildVizFormat(RECURRING_EVENTS)
    /\ pc' = "done"
    /\ UNCHANGED << RECURRING_EVENTS, start_year, end_year, idx, year, dates, error,
                    calendar, log, run, first >>
    /\ UNCHANGED fetch_vars

Next ==
    \/ EnterBuildFullCalendar
    \/ LoopBody
    \/ LoopRaise
    \/ SortAndReturn
    \/ CallBuildVizFormat

Spec == Init /\ [][Next]_vars

\* build_full_calendar and build_viz_format are called a second time, with the
\* same table and the same years, in the state the first calls left
CallAgain ==
    /\ pc = "done"
    /\ run = 1
    /\ run' = 2
    /\ first' = [calendar |-> calendar, log |-> log]
    /\ pc' = "main"
    /\ UNCHANGED << RECURRING_EVENTS, start_year, end_year, idx, year, dates, error,
                    calendar, viz_events, log >>
    /\ UNCHANGED fetch_vars

NextTwice ==
    \/ Next
    \/ CallAgain

SpecTwice == Init /\ [][NextTwice]_vars

\* ---------------------------------------------------------------------
\* fetch_populartimes.py
\* ---------------------------------------------------------------------
\* the names of the first places of the table; place_id and address only
\* feed the two lookups
PlaceNames ==
    << "IX Art Park", "Downtown Mall", "Charlottesville Area Transit",
       "Virginia Discovery Museum", "Melting Pot" >>

PLACES == [k \in 1..MaxPlaces |-> [name |-> PlaceNames[k]]]

\* what a lookup of livepopulartimes can return: a dict with popular times,
\* one whose list is empty, one without the key. Popular times are lists of
\* days with a name and a list of numbers, as the script takes them to be
\* wherever it reads them (the peak scan, the CSV rows, the summary): the
\* peak scan then raises nothing and sets only what is printed
PopularDay == [name |-> "Monday", data |-> <<0, 40>>]
Responses ==
    { [populartimes |-> << PopularDay >>], [populartimes |-> << >>], [rating |-> 4] }

\* data.get("populartimes"): an absent key and an empty list are falsy
HasPopularTimes(data) == "populartimes" \in DOMAIN data /\ data.populartimes # << >>

\* results[name] = entry
Store(res, name, entry) == (name :> entry) @@ res

\* the test left out: the address lookup follows a PlaceID lookup that got data
Continue_Never(got) == FALSE

\* if got_data: ...; continue
Continue(got) == got

\* the loop goes on with the next place, or ends after the last
AfterPlace(k) ==
    IF k < Len(PLACES) THEN [place_idx |-> k + 1, fetch_pc |-> "place_id"]
    ELSE [place_idx |-> k, fetch_pc |-> "after_loop"]

Lookup(name, method, outcome, stored, counted) ==
    [place |-> name, method |-> method, outcome |-> outcome,
     stored |-> stored, counted |-> counted]

\* method 1: get_populartimes_by_PlaceID in its try block, then the test of got_data
LookupByPlaceID ==
    /\ fetch_pc = "place_id"
    /\ LET name == PLACES[place_idx].name
       IN \/ \E data \in Responses :
                IF HasPopularTimes(data)
                THEN /\ results' = Store(results, name, data)
                     /\ got_data' = TRUE
                     /\ success_count' = success_count + 1
                     /\ trace' = Append(trace, Lookup(name, "place_id", "populartimes", TRUE, TRUE))
                ELSE /\ got_data' = FALSE
                     /\ UNCHANGED << results, success_count >>
                     /\ trace' = Append(trace, Lookup(name, "place_id", "no_populartimes", FALSE, FALSE))
          \/ \* the lookup raises: except Exception prints and goes on
             /\ got_data' = FALSE
             /\ UNCHANGED << results, success_count >>
             /\ trace' = Append(trace, Lookup(name, "place_id", "raised", FALSE, FALSE))
    /\ IF Continue(got_data')
       THEN /\ place_idx' = AfterPlace(place_idx).place_idx
            /\ fetch_pc' = AfterPlace(place_idx).fetch_pc
       ELSE /\ place_idx' = place_idx
            /\ fetch_pc' = "address"
    /\ UNCHANGED events_vars

\* method 2: get_populartimes_by_address in its try block, to the end of the loop body
LookupByAddress ==
    /\ fetch_pc = "address"
    /\ LET name == PLACES[place_idx].name
       IN \/ \E data \in Responses :
                IF HasPopularTimes(data)
                THEN /\ results' = Store(results, name, data)
                     /\ got_data' = TRUE
                     /\ success_count' = success_count + 1
                     /\ trace' = Append(trace, Lookup(name, "address", "populartimes", TRUE, TRUE))
                ELSE /\ results' = Store(results, name, [status |-> "no_data", raw |-> data])
                     /\ UNCHANGED << got_data, success_count >>
                     /\ trace' = Append(trace, Lookup(name, "address", "no_populartimes", TRUE, FALSE))
          \/ \* the lookup raises
             /\ results' = Store(results, name, [status |-> "error", error |-> "Exception"])
             /\ UNCHANGED << got_data, success_count >>
             /\ trace' = Append(trace, Lookup(name, "address", "raised", TRUE, FALSE))
    /\ place_idx' = AfterPlace(place_idx).place_idx
    /\ fetch_pc' = AfterPlace(place_idx).fetch_pc
    /\ UNCHANGED events_vars

\* after the loop: the summary line and the two files are written from results
SaveResults ==
    /\ fetch_pc = "after_loop"
    /\ fetch_pc' = "saved"
    /\ UNCHANGED << place_idx, got_data, results, success_count, trace >>
    /\ UNCHANGED events_vars

FetchNext ==
    \/ LookupByPlaceID
    \/ LookupByAddress
    \/ SaveResults

\* fetch_events.py is not run
EventsIdle ==
    /\ RECURRING_EVENTS = << >>
    /\ start_year = DefaultStartYear
    /\ end_year = DefaultEndYear
    /\ pc = "main"
    /\ idx = 0
    /\ year = 0
    /\ dates = <<>>
    /\ error = "none"
    /\ calendar = <<>>
    /\ viz_events = <<>>
    /\ log = <<>>
    /\ run = 1
    /\ first = [calendar |-> <<>>, log |-> <<>>]

FetchSpecInit == EventsIdle /\ FetchInit

SpecFetch == FetchSpecInit /\ [][FetchNext]_vars

\* ---------------------------------------------------------------------
\* Properties
\* ---------------------------------------------------------------------
\* the definition of the last call of generate_event_dates
event_def == RECURRING_EVENTS[idx]

\* a call of generate_event_dates has ended (returned or raised)
Called == idx > 0

\* build_full_calendar has returned calendar
CalendarReturned == pc \in {"returned", "done"}

\* the year is outside the active years of the definition or one of its skip years
InactiveYear(d, y) ==
    \/ y < StartYearOf(d)
    \/ y > EndYearOf(d)
    \/ \E k \in 1..Len(Get(d, "skip_years", <<>>)) : d.skip_years[k] = y

RecognisedPatterns == {"fixed_dates", "every_friday", "every_saturday", "first_friday"}

\* the number a run of decimal digits stands for
RECURSIVE DigitsValue(_)
DigitsValue(s) ==
    IF s = <<>> THEN 0
    ELSE 10 * DigitsValue(SubSeq(s, 1, Len(s) - 1)) + (s[Len(s)] - 48)

\* the calendar date an ISO string "YYYY-MM-DD" names
ParseIso(s) ==
    MkDate(DigitsValue(SubSeq(s, 1, 4)), DigitsValue(SubSeq(s, 6, 7)),
           DigitsValue(SubSeq(s, 9, 10)))

\* the definitions of the table an entry can come from: those of its name
Origins(e) == { k \in 1..Len(RECURRING_EVENTS) : RECURRING_EVENTS[k].name = e.name }

\* C1: a call of generate_event_dates with a year before the definition's
\* start year, after its end year or among its skip years returns the empty
\* list and raises no error, whatever the pattern of the definition
C1_InactiveYearReturnsEmpty ==
    (Called /\ InactiveYear(event_def, year))
        => (dates = <<>> /\ error = "none" /\ pc # "raised")

\* C1 witness: an inactive year was passed with a definition whose season
\* bound is no date of that year, and with one of an unknown pattern tag
C1_Witness ==
    /\ Called /\ InactiveYear(event_def, year)
    /\ event_def.pattern = "every_saturday"
    /\ ~DateValid(year, event_def.season_start_month, event_def.season_start_day)
    /\ dates = <<>> /\ error = "none"

\* C2: a definition whose pattern tag is not a recognised one is a hard
\* error: a call of generate_event_dates with it in an active year raises
C2_UnknownPatternRaises ==
    (Called /\ ~InactiveYear(event_def, year)
            /\ event_def.pattern \notin RecognisedPatterns)
        => error # "none"

\* C3: every entry of the returned calendar is dated in a year within the
\* active years of its definition and outside that definition's skip years
C3_EntryYearsActive ==
    CalendarReturned =>
        \A k \in 1..Len(calendar) :
            /\ Origins(calendar[k]) # {}
            /\ \A o \in Origins(calendar[k]) :
                  ~InactiveYear(RECURRING_EVENTS[o], ParseIso(calendar[k].date).year)

\* C3 witness: a weekly definition that skips 2020 has entries in 2019 and
\* in 2021 in a calendar built over 2019..2021
C3_Witness ==
    /\ CalendarReturned
    /\ start_year <= 2019 /\ end_year >= 2021
    /\ \E o \in 1..Len(RECURRING_EVENTS) :
          /\ RECURRING_EVENTS[o].pattern = "every_friday"
          /\ 2020 \in SkipYearsOf(RECURRING_EVENTS[o])
          /\ \E j, k \in 1..Len(calendar) :
                /\ calendar[j].name = RECURRING_EVENTS[o].name
                /\ calendar[k].name = RECURRING_EVENTS[o].name
                /\ ParseIso(calendar[j].date).year = 2019
                /\ ParseIso(calendar[k].date).year = 2021

\* C4: the returned calendar is in ascending order of date: of two adjacent
\* entries the first is dated on or before the second, as calendar dates
C4_CalendarSorted ==
    CalendarReturned =>
        \A k \in 1..(Len(calendar) - 1) :
            ToOrdinal(ParseIso(calendar[k].date))
                <= ToOrdinal(ParseIso(calendar[k + 1].date))

\* C4 witness: a returned calendar in which an entry of a later definition
\* of the table precedes one of an earlier definition, with dates in
\* one-digit and in two-digit months
C4_Witness ==
    /\ CalendarReturned
    /\ \E j, k \in 1..Len(calendar) :
          /\ j < k
          /\ \E a \in Origins(calendar[j]), b \in Origins(calendar[k]) : a > b
          /\ ParseIso(calendar[j].date).month < 10
          /\ ParseIso(calendar[k].date).month >= 10

\* the ordinals of the days from seasonStart(y) to seasonEnd(y) that fall on wd
SeasonOrdinals(d, y, wd) ==
    { o \in ToOrdinal(MkDate(y, d.season_start_month, d.season_start_day))
              .. ToOrdinal(MkDate(y, d.season_end_month, d.season_end_day)) :
        (o + 6) % 7 = wd }

WeeklyPatterns == {"every_friday", "every_saturday"}
PatternWeekday(p) == IF p = "every_friday" THEN 4 ELSE 5

SeasonValid(d, y) ==
    /\ DateValid(y, d.season_start_month, d.season_start_day)
    /\ DateValid(y, d.season_end_month, d.season_end_day)

\* C5: for a weekly pattern and an active year whose season bounds are dates,
\* the call returns exactly the dates from seasonStart(y) to seasonEnd(y) that
\* fall on the pattern's weekday, ascending and each once, and so none when
\* seasonEnd(y) is before seasonStart(y); no error is raised
C5_WeeklyWindow ==
    (Called /\ ~InactiveYear(event_def, year)
            /\ event_def.pattern \in WeeklyPatterns /\ SeasonValid(event_def, year))
        => LET S == SeasonOrdinals(event_def, year, PatternWeekday(event_def.pattern))
           IN /\ error = "none"
              /\ Len(dates) = Cardinality(S)
              /\ \A k \in 1..Len(dates) :
                    /\ DateValid(dates[k].year, dates[k].month, dates[k].day)
                    /\ ToOrdinal(dates[k]) \in S
              /\ \A k \in 1..(Len(dates) - 1) :
                    ToOrdinal(dates[k]) < ToOrdinal(dates[k + 1])

\* C5 witness: the calendar holds the Friday 2025-09-05, the last day of its
\* season, and the last call was one with an inverted season that returned
\* no date
C5_Witness ==
    /\ Called /\ ~InactiveYear(event_def, year)
    /\ event_def.pattern \in WeeklyPatterns /\ SeasonValid(event_def, year)
    /\ ToOrdinal(MkDate(year, event_def.season_end_month, event_def.season_end_day))
         < ToOrdinal(MkDate(year, event_def.season_start_month, event_def.season_start_day))
    /\ dates = <<>> /\ error = "none"
    /\ \E k \in 1..Len(calendar) :
          /\ calendar[k].name = "Fridays After Five"
          /\ ParseIso(calendar[k].date) = MkDate(2025, 9, 5)

\* C6: for the first_friday pattern and an active year the call returns
\* twelve dates, the k-th in month k of that year, each a Friday on one of
\* the first seven days of its month
C6_FirstFridays ==
    (Called /\ ~InactiveYear(event_def, year) /\ event_def.pattern = "first_friday")
        => /\ error = "none"
           /\ Len(dates) = 12
           /\ \A k \in 1..Len(dates) :
                 /\ dates[k].year = year
                 /\ dates[k].month = k
                 /\ dates[k].day \in 1..7
                 /\ (ToOrdinal(dates[k]) + 6) % 7 = 4

\* C6 witness: a first_friday call returned twelve dates, one on the first
\* and one on the seventh day of its month
C6_Witness ==
    /\ Called /\ ~InactiveYear(event_def, year) /\ event_def.pattern = "first_friday"
    /\ Len(dates) = 12
    /\ \E j, k \in 1..Len(dates) : dates[j].day = 1 /\ dates[k].day = 7

\* C7: for the fixed_dates pattern and an active year the call returns the
\* days of typical_days that are dates of (year, typical_month), in the order
\* of typical_days, leaves the others out and raises no error
C7_FixedDatesSkipInvalid ==
    (Called /\ ~InactiveYear(event_def, year) /\ event_def.pattern = "fixed_dates")
        => LET IsDay(x) == DateValid(year, event_def.typical_month, x)
           IN /\ error = "none"
              /\ [k \in 1..Len(dates) |-> dates[k].day]
                    = SelectSeq(event_def.typical_days, IsDay)
              /\ \A k \in 1..Len(dates) :
                    dates[k].year = year /\ dates[k].month = event_def.typical_month

\* C7 witness: the calendar holds no entry of a definition of April 31 after
\* a call with it in an active year, and the last call returned February 29
\* and 28, in that order, after leaving out February 30
C7_Witness ==
    /\ Called /\ ~InactiveYear(event_def, year) /\ event_def.pattern = "fixed_dates"
    /\ event_def.typical_days = <<30, 29, 28>>
    /\ dates = << MkDate(year, 2, 29), MkDate(year, 2, 28) >>
    /\ error = "none"
    /\ idx > 1
    /\ RECURRING_EVENTS[idx - 1].typical_days = <<31>>
    /\ RECURRING_EVENTS[idx - 1].typical_month = 4
    /\ ~InactiveYear(RECURRING_EVENTS[idx - 1], year)
    /\ \A k \in 1..Len(calendar) : calendar[k].name # RECURRING_EVENTS[idx - 1].name

\* the (name, date) pairs generate_event_dates produces for definition k
\* over the years start_year .. end_year
PairsOf(k) ==
    UNION { { << RECURRING_EVENTS[k].name, IsoFormat(ds[j]) >> : j \in 1..Len(ds) } :
            ds \in { GenerateEventDatesCall(RECURRING_EVENTS[k], y).dates :
                       y \in start_year..end_year } }

RECURSIVE SumOver(_, _)
SumOver(f, S) ==
    IF S = {} THEN 0
    ELSE LET x == CHOOSE x \in S : TRUE IN f[x] + SumOver(f, S \ {x})

\* the number of dates generate_event_dates returns over all definitions and years
Produced ==
    SumOver([p \in (1..Len(RECURRING_EVENTS)) \X (start_year..end_year) |->
                Len(GenerateEventDatesCall(RECURRING_EVENTS[p[1]], p[2]).dates)],
            (1..Len(RECURRING_EVENTS)) \X (start_year..end_year))

\* C8: the returned calendar holds every (definition, date) pair that
\* generate_event_dates produces over all definitions and all years of
\* start_year..end_year, each once and no other; entries of one date, of
\* whatever definitions, lie next to each other
C8_EveryEventOnce ==
    CalendarReturned =>
        /\ { << calendar[k].name, calendar[k].date >> : k \in 1..Len(calendar) }
              = UNION { PairsOf(k) : k \in 1..Len(RECURRING_EVENTS) }
        /\ Len(calendar) = Produced
        /\ \A j, k \in 1..Len(calendar) :
              (j # k) => << calendar[j].name, calendar[j].date >>
                            # << calendar[k].name, calendar[k].date >>
        /\ \A j, k \in 1..Len(calendar) :
              (j < k /\ calendar[j].date = calendar[k].date)
                 => \A m \in j..k : calendar[m].date = calendar[j].date

\* C8 witness: two definitions produced one date and the returned calendar
\* holds their two entries side by side; the last year of the range has entries
C8_Witness ==
    /\ CalendarReturned
    /\ \E k \in 1..(Len(calendar) - 1) :
          /\ calendar[k].date = calendar[k + 1].date
          /\ calendar[k].name # calendar[k + 1].name
    /\ start_year < end_year
    /\ \E k \in 1..Len(calendar) : ParseIso(calendar[k].date).year = end_year

\* a client of the compact record: the year test and the pattern rule it can
\* apply to a date from the fields of the record alone
ClientYearOk(rec, y) ==
    /\ ("endYear" \in DOMAIN rec) => y <= rec.endYear
    /\ ("skipYears" \in DOMAIN rec) => \A k \in 1..Len(rec.skipYears) : rec.skipYears[k] # y

ClientInSeason(rec, dt) ==
    /\ \/ rec.startMonth < dt.month
       \/ rec.startMonth = dt.month /\ rec.startDay <= dt.day
    /\ \/ dt.month < rec.endMonth
       \/ dt.month = rec.endMonth /\ dt.day <= rec.endDay

ClientDerives(rec, dt) ==
    /\ DateValid(dt.year, dt.month, dt.day)
    /\ ClientYearOk(rec, dt.year)
    /\ IF "recurring" \in DOMAIN rec
       THEN \/ rec.recurring = "friday"
               /\ (ToOrdinal(dt) + 6) % 7 = 4 /\ ClientInSeason(rec, dt)
            \/ rec.recurring = "saturday"
               /\ (ToOrdinal(dt) + 6) % 7 = 5 /\ ClientInSeason(rec, dt)
            \/ rec.recurring = "first_friday"
               /\ (ToOrdinal(dt) + 6) % 7 = 4 /\ dt.day \in 1..7
       ELSE /\ {"month", "days"} \subseteq DOMAIN rec
            /\ dt.month = rec.month
            /\ \E k \in 1..Len(rec.days) : rec.days[k] = dt.day

\* C9: every date of the calendar is one a client derives from the record
\* that build_viz_format returns for the entry's definition, by the year
\* test and the pattern rule on the fields of that record
C9_DatesDerivableFromViz ==
    (pc = "done") =>
        \A k \in 1..Len(calendar) :
            \E j \in 1..Len(viz_events) :
                /\ viz_events[j].name = calendar[k].name
                /\ ClientDerives(viz_events[j], ParseIso(calendar[k].date))

\* C9 witness: the calendar holds entries of a weekly definition whose
\* record carries endYear and of a fixed_dates definition whose record
\* carries skipYears
C9_Witness ==
    /\ pc = "done"
    /\ \E k \in 1..Len(calendar), j \in 1..Len(viz_events) :
          /\ viz_events[j].name = calendar[k].name
          /\ {"recurring", "startMonth", "endYear"} \subseteq DOMAIN viz_events[j]
    /\ \E k \in 1..Len(calendar), j \in 1..Len(viz_events) :
          /\ viz_events[j].name = calendar[k].name
          /\ {"month", "days", "skipYears"} \subseteq DOMAIN viz_events[j]

EntryFields == {"date", "name", "type", "boost", "description", "location", "source"}
CopiedFields == EntryFields \ {"date"}

\* what .get(key, default) falls back to for the three optional keys
EntryDefault(f) ==
    IF f = "description" THEN ""
    ELSE IF f = "location" THEN "Downtown Mall"
    ELSE "curated"

\* C11 as stated: every entry of the calendar has exactly the seven fields,
\* and name, type, boost, description, location and source are fields of its
\* originating definition whose values the entry carries unchanged
C11_EntryCopiesDefinition ==
    \A k \in 1..Len(calendar) :
        /\ DOMAIN calendar[k] = EntryFields
        /\ \E o \in Origins(calendar[k]) :
              \A f \in CopiedFields :
                  f \in DOMAIN RECURRING_EVENTS[o]
                     /\ calendar[k][f] = RECURRING_EVENTS[o][f]

\* C11 amended: every entry of the calendar, at every moment of the build, has
\* exactly the seven fields; name, type and boost are those of its definition,
\* and description, location and source are the definition's where it has the
\* key and the defaults "", "Downtown Mall" and "curated" where it has not
C11_EntryFullyPopulated ==
    \A k \in 1..Len(calendar) :
        /\ DOMAIN calendar[k] = EntryFields
        /\ Len(calendar[k].date) = 10
        /\ \E o \in Origins(calendar[k]) :
              \A f \in CopiedFields :
                  calendar[k][f] = IF f \in DOMAIN RECURRING_EVENTS[o]
                                   THEN RECURRING_EVENTS[o][f]
                                   ELSE EntryDefault(f)

\* C11 witness: the returned calendar holds an entry of a definition that has
\* no source key and one of a definition that has all six keys
C11_Witness ==
    /\ CalendarReturned
    /\ \E j, k \in 1..Len(calendar) :
          \E a \in Origins(calendar[j]), b \in Origins(calendar[k]) :
              /\ "source" \notin DOMAIN RECURRING_EVENTS[a]
              /\ calendar[j].source = "curated"
              /\ CopiedFields \subseteq DOMAIN RECURRING_EVENTS[b]
              /\ calendar[k].source = RECURRING_EVENTS[b].source

\* the entries in the order build_full_calendar appended them: call after
\* call of the log, and within a call in the order of the dates it returned
RECURSIVE Generated(_)
Generated(l) ==
    IF l = <<>> THEN <<>>
    ELSE Generated(SubSeq(l, 1, Len(l) - 1))
            \o Entries(l[Len(l)].event_def, l[Len(l)].dates)

\* the place of the first entry equal to e in the sequence g, 0 if there is none
PlaceIn(g, e) ==
    IF \E i \in 1..Len(g) : g[i] = e
    THEN CHOOSE i \in 1..Len(g) : g[i] = e /\ \A h \in 1..(i - 1) : g[h] # e
    ELSE 0

\* C12: the sort is stable: of two entries of the returned calendar with the
\* same date, the one appended first comes first, so that entries of one date
\* stand in the order of their definitions in the table and, within one
\* definition, in the order its dates were emitted
C12_SortStable ==
    CalendarReturned =>
        \A k \in 1..(Len(calendar) - 1) :
            (calendar[k].date = calendar[k + 1].date)
               => LET g == Generated(log)
                  IN /\ PlaceIn(g, calendar[k]) > 0
                     /\ PlaceIn(g, calendar[k]) <= PlaceIn(g, calendar[k + 1])
                     /\ \A a \in Origins(calendar[k]), b \in Origins(calendar[k + 1]) :
                           a <= b

\* C12 witness: the sort moved an entry of a later definition before one of an
\* earlier definition, and two entries of one date stand in table order
C12_Witness ==
    /\ CalendarReturned
    /\ \E k \in 1..(Len(calendar) - 1) :
          /\ calendar[k].date = calendar[k + 1].date
          /\ \E a \in Origins(calendar[k]), b \in Origins(calendar[k + 1]) : a < b
    /\ \E j, k \in 1..Len(calendar) :
          /\ j < k
          /\ calendar[j].date # calendar[k].date
          /\ PlaceIn(Generated(log), calendar[j]) > PlaceIn(Generated(log), calendar[k])

\* C13: both scans end. In a weekly call of an active year with season bounds
\* that are dates, the loop leaves with its date past seasonEnd before the
\* fuel is spent, after one step for each day of the season (none when the
\* season is inverted), each step one day forward. In a first_friday call the
\* scan of each month needs at most 6 increments from day 1 and its Friday is
\* a day of that month
C13_ScansTerminate ==
    /\ (Called /\ ~InactiveYear(event_def, year)
               /\ event_def.pattern \in WeeklyPatterns /\ SeasonValid(event_def, year))
          => LET start == MkDate(year, event_def.season_start_month, event_def.season_start_day)
                 end == MkDate(year, event_def.season_end_month, event_def.season_end_day)
                 fin == WeeklyLoop(start, end, PatternWeekday(event_def.pattern))
                 span == ToOrdinal(end) - ToOrdinal(start) + 1
             IN /\ ~DateLeq(fin.d, end)
                /\ fin.steps < ScanFuel
                /\ fin.steps = IF span > 0 THEN span ELSE 0
                /\ ToOrdinal(fin.d) = ToOrdinal(start) + fin.steps
                /\ fin.dates = dates
    /\ (Called /\ ~InactiveYear(event_def, year) /\ event_def.pattern = "first_friday")
          => \A month \in 1..12 :
                LET n == FirstFridayIncrements(MkDate(year, month, 1))
                IN /\ n <= 6
                   /\ month \in 1..Len(dates)
                   /\ dates[month] = MkDate(year, month, 1 + n)

\* C13 witness: a first_friday call whose scan needed no increment in one
\* month and 6 in another, after the calls of a weekly definition whose scan
\* took more than 200 steps
C13_Witness ==
    /\ Called /\ ~InactiveYear(event_def, year) /\ event_def.pattern = "first_friday"
    /\ \E a, b \in 1..12 :
          /\ FirstFridayIncrements(MkDate(year, a, 1)) = 0
          /\ FirstFridayIncrements(MkDate(year, b, 1)) = 6
    /\ idx = 2
    /\ RECURRING_EVENTS[1].pattern \in WeeklyPatterns
    /\ SeasonValid(RECURRING_EVENTS[1], year)
    /\ WeeklyLoop(MkDate(year, RECURRING_EVENTS[1].season_start_month,
                               RECURRING_EVENTS[1].season_start_day),
                  MkDate(year, RECURRING_EVENTS[1].season_end_month,
                               RECURRING_EVENTS[1].season_end_day),
                  PatternWeekday(RECURRING_EVENTS[1].pattern)).steps > 200

\* the years of the calendar that lie in the full range 2015..2025
ClientYears == (start_year..end_year) \cap (DefaultStartYear..DefaultEndYear)

\* the dates a client derives from the record over those years
ClientDates(rec) ==
    { dt \in { MkDate(y, m, d) : y \in ClientYears, m \in 1..12, d \in 1..31 } :
        ClientDerives(rec, dt) }

\* the dates the calendar holds, in those years, for the definition of that name
CalendarDates(n) ==
    { dt \in { ParseIso(calendar[k].date) :
                 k \in { i \in 1..Len(calendar) : calendar[i].name = n } } :
        dt.year \in ClientYears }

\* C14: for every definition, the set of dates a client derives from its
\* build_viz_format record over the years of the full range equals the set of
\* dates the calendar holds for it: the client derives no date that
\* generate_event_dates did not produce, and misses none
C14_ClientDatesEqualCalendar ==
    (pc = "done") =>
        \A j \in 1..Len(viz_events) :
            ClientDates(viz_events[j]) = CalendarDates(viz_events[j].name)

\* the fields every record has, and the recurrence fields of each pattern
VizBaseFields == {"name", "type", "boost", "desc"}
VizSeasonFields == {"recurring", "startMonth", "startDay", "endMonth", "endDay"}
VizPatternFields(p) ==
    IF p = "fixed_dates" THEN {"month", "days"}
    ELSE IF p \in WeeklyPatterns THEN VizSeasonFields
    ELSE IF p = "first_friday" THEN {"recurring"}
    ELSE {}

\* C15: the record build_viz_format returns for a definition has name, type,
\* boost and desc, the recurrence fields of the definition's pattern with the
\* definition's values and no recurrence field of another pattern; it has
\* endYear only when the definition's end year is not the end of the full
\* range (in the code: when it is before it), and skipYears only when the
\* definition has skip years
C15_VizRecordFields ==
    (pc = "done") =>
        /\ Len(viz_events) = Len(RECURRING_EVENTS)
        /\ \A j \in 1..Len(viz_events) :
              LET ev == RECURRING_EVENTS[j]
                  rec == viz_events[j]
              IN /\ VizBaseFields \subseteq DOMAIN rec
                 /\ rec.name = ev.name /\ rec.type = ev.type /\ rec.boost = ev.boost
                 /\ rec.desc = IF "description" \in DOMAIN ev THEN ev.description ELSE ""
                 /\ DOMAIN rec \ (VizBaseFields \cup {"endYear", "skipYears"})
                       = VizPatternFields(ev.pattern)
                 /\ (ev.pattern = "fixed_dates")
                       => rec.month = ev.typical_month /\ rec.days = ev.typical_days
                 /\ (ev.pattern \in WeeklyPatterns)
                       => /\ rec.recurring = (IF ev.pattern = "every_friday"
                                              THEN "friday" ELSE "saturday")
                          /\ rec.startMonth = ev.season_start_month
                          /\ rec.startDay = ev.season_start_day
                          /\ rec.endMonth = ev.season_end_month
                          /\ rec.endDay = ev.season_end_day
                 /\ (ev.pattern = "first_friday") => rec.recurring = "first_friday"
                 /\ ("endYear" \in DOMAIN rec)
                       <=> ("end_year" \in DOMAIN ev /\ ev.end_year < VizFullRangeEnd)
                 /\ ("endYear" \in DOMAIN rec)
                       => (rec.endYear = ev.end_year /\ EndYearOf(ev) # DefaultEndYear)
                 /\ ("skipYears" \in DOMAIN rec) <=> (SkipYearsOf(ev) # {})
                 /\ ("skipYears" \in DOMAIN rec) => rec.skipYears = ev.skip_years

\* C15 witness: the records of a weekly definition that ends before 2025, with
\* endYear and skipYears, and of a definition that names 2025 as its end year
\* and has an empty skip list, with neither
C15_Witness ==
    /\ pc = "done"
    /\ \E j, k \in 1..Len(viz_events) :
          /\ DOMAIN viz_events[j] = VizBaseFields \cup VizSeasonFields \cup {"endYear", "skipYears"}
          /\ {"end_year", "skip_years"} \subseteq DOMAIN RECURRING_EVENTS[k]
          /\ RECURRING_EVENTS[k].end_year = DefaultEndYear
          /\ RECURRING_EVENTS[k].skip_years = <<>>
          /\ DOMAIN viz_events[k] \cap {"endYear", "skipYears"} = {}

\* C16: no step of any sequence of calls of build_full_calendar (with its
\* calls of generate_event_dates) and build_viz_format changes the table
\* RECURRING_EVENTS; within a call of build_full_calendar a step either
\* appends to the calendar, leaving the entries it holds as they are and
\* where they are, or reorders it, leaving it the same entries; and the list
\* a first call returned stays as returned during a second call
C16_FrameKept ==
    [][ /\ RECURRING_EVENTS' = RECURRING_EVENTS
        /\ (pc # "main")
              => \/ /\ Len(calendar') >= Len(calendar)
                    /\ SubSeq(calendar', 1, Len(calendar)) = calendar
                 \/ /\ Len(calendar') = Len(calendar)
                    /\ Range(calendar') = Range(calendar)
        /\ (run = 2) => first' = first ]_vars

\* C16 witness: both functions have been called twice; the sort has moved
\* entries, and the table still holds a definition whose typical_days are
\* not ascending, which the record of build_viz_format shares
C16_Witness ==
    /\ run = 2 /\ pc = "done"
    /\ Len(first.calendar) > 0
    /\ calendar # Generated(log)
    /\ \E j \in 1..Len(RECURRING_EVENTS) :
          /\ RECURRING_EVENTS[j].pattern = "fixed_dates"
          /\ RECURRING_EVENTS[j].typical_days = <<30, 29, 28>>
          /\ viz_events[j].days = RECURRING_EVENTS[j].typical_days

\* an entry of results carries popular times
Carries(entry) == "populartimes" \in DOMAIN entry /\ Len(entry.populartimes) > 0

PlaceNamesOf(places) == { places[k].name : k \in 1..Len(places) }

\* the lookups of the trace made for the place of that name
LookupsOf(n) == { k \in 1..Len(trace) : trace[k].place = n }

====
